---- MODULE Spec2Model ----
(***************************************************************************)
(* Grid reconciliation of the reservation scheduler's user client          *)
(* (src/static/general/script.js, the listener registered at line 221;     *)
(* lines 1-220 of that file hold an earlier copy of the same listener,     *)
(* without slot groups and without fetchWithAuth).                         *)
(*                                                                         *)
(* The document is the sequence of td.time-slot elements in document       *)
(* order; an element carries its data-* attributes, its classList and its  *)
(* textContent.  Strings that the code assembles and takes apart again     *)
(* (template literals, split, parseInt) are sequences of tokens: a weekday *)
(* name is one token, "-" is one token, a decimal digit is one token.      *)
(***************************************************************************)
EXTENDS Integers, Sequences, FiniteSets, TLC

VARIABLES
    grid,          \* the td.time-slot elements of the document, in document order
    localStorage,  \* key -> value, NULL when the key is absent
    socket,        \* "null" or "open": the module-level socket variable
    view,          \* which section is visible: "login" or "reservation"
    messageArea,   \* className of the message area ("" when cleared)
    pending,       \* /reserve requests in flight: the NodeList each handler captured
    logins,        \* /login requests in flight
    reloadTimer,   \* TRUE while handleLogout's reload timer is armed
    pruned,        \* history: slots that were selected when a push named them and that no
                   \* click has selected since
    justPruned,    \* history: slots that were selected when the push handled last named them
                   \* for another user; {} once any other handler has touched the page
    before,        \* history of SpecPush: the grid as the push handled last found it
    pushed,        \* history of SpecPush: the reservation list of that push
    clicks,        \* history of SpecClicks: the slot clicks so far, each with the grid
                   \* it found
    last           \* history: the submit handler's step that ran last ("submitEmpty",
                   \* "reserveOk", "reserveRejected", "reserveNetworkError",
                   \* "reserveExpired"), "other" once any other handler has run;
                   \* in SpecFeed the event handled last ("click" or the message type)

vars == <<grid, localStorage, socket, view, messageArea, pending, logins, reloadTimer,
          pruned, justPruned, before, pushed, clicks, last>>

\* the history variables that only SpecPush and SpecClicks record
hist == <<before, pushed, clicks>>

----------------------------------------------------------------------------
(* Bounds of the model *)

\* number of weekday columns of the table SpecClicks clicks on (all 24 rows are kept)
MaxClickDays == 2
\* number of slot clicks SpecClicks follows after the page was built
MaxClicks == 2
\* number of slot clicks SpecTable follows on the full table
MaxTableClicks == 1
\* length of the reservation list SpecClicks receives before the clicks
MaxClickSnapshotLen == 1
\* number of weekday columns of the table that are modelled
MaxDays == 1
\* number of overnight rows (hours 0, 1, ...) that are modelled
MaxNight == 2
\* number of daytime rows (hours 6, 7, ...) that are modelled
MaxDayHours == 1
\* longest pushed reservation list
MaxSnapshotLen == 2
\* most /reserve requests in flight at once
MaxInFlight == 1

----------------------------------------------------------------------------
(* Program constants *)

NULL == "null"

\* Object.keys(dayMap)
Days == <<"Monday", "Tuesday", "Wednesday", "Thursday", "Friday", "Saturday", "Sunday">>

\* for (let time = 0; time < 24; time++)
NumHours == 24

\* if (time >= 0 && time <= 5)
GroupFirst == 0
GroupLast == 5

\* the user who logs in on this page, and another user of the server
LocalUser == "alice"
OtherUser == "bob"
Users == {LocalUser, OtherUser}

----------------------------------------------------------------------------
(* Strings *)

Digit(n) == CASE n = 0 -> "0" [] n = 1 -> "1" [] n = 2 -> "2" [] n = 3 -> "3"
              [] n = 4 -> "4" [] n = 5 -> "5" [] n = 6 -> "6" [] n = 7 -> "7"
              [] n = 8 -> "8" [] n = 9 -> "9"

DigitValue(c) == CASE c = "0" -> 0 [] c = "1" -> 1 [] c = "2" -> 2 [] c = "3" -> 3
                   [] c = "4" -> 4 [] c = "5" -> 5 [] c = "6" -> 6 [] c = "7" -> 7
                   [] c = "8" -> 8 [] c = "9" -> 9 [] OTHER -> -1

\* `${n}` of a non-negative integer
RECURSIVE ToStr(_)
ToStr(n) == IF n < 10 THEN <<Digit(n)>> ELSE ToStr(n \div 10) \o <<Digit(n % 10)>>

\* parseInt(s, 10): the leading digits of s; -1 stands for NaN
RECURSIVE ParseDigits(_, _)
ParseDigits(s, acc) ==
    IF s = <<>> \/ DigitValue(Head(s)) < 0 THEN acc
    ELSE ParseDigits(Tail(s), 10 * acc + DigitValue(Head(s)))

parseInt(s) == IF s = <<>> \/ DigitValue(Head(s)) < 0 THEN -1 ELSE ParseDigits(s, 0)

\* s.split('-')
RECURSIVE Split(_, _, _)
Split(s, cur, out) ==
    IF s = <<>> THEN Append(out, cur)
    ELSE IF Head(s) = "-" THEN Split(Tail(s), <<>>, Append(out, cur))
    ELSE Split(Tail(s), Append(cur, Head(s)), out)

split(s) == Split(s, <<>>, <<>>)

----------------------------------------------------------------------------
(* The document *)

\* the columns and rows of the table that the model keeps
ModelDays == SubSeq(Days, 1, MaxDays)
ModelTimes == {t \in 0..(NumHours - 1) :
                 t < MaxNight \/ (t > GroupLast /\ t <= GroupLast + MaxDayHours)}

\* variant: the row of hour 6 is given the group attribute as well
groupAttributeThroughSix(day, time) ==
    IF time >= GroupFirst /\ time <= GroupLast + 1 THEN <<day, "-", "group">> ELSE <<>>

\* variant: the group attribute does not carry the day
groupAttributeShared(day, time) ==
    IF time >= GroupFirst /\ time <= GroupLast THEN <<"night", "-", "group">> ELSE <<>>

\* `data-group="${day}-group"`, or no attribute
groupAttribute(day, time) ==
    IF time >= GroupFirst /\ time <= GroupLast THEN <<day, "-", "group">> ELSE <<>>

\* <td class="time-slot" data-day="${day}" data-time-index="${time}" ${groupAttribute}>
TimeSlot(day, time) ==
    [day |-> <<day>>, timeIndex |-> ToStr(time), group |-> groupAttribute(day, time),
     classList |-> {"time-slot"}, textContent |-> ""]

TableRow(days, time) == [i \in 1..Len(days) |-> TimeSlot(days[i], time)]

RECURSIVE TableRows(_, _, _)
TableRows(days, times, time) ==
    IF time >= NumHours THEN <<>>
    ELSE (IF time \in times THEN TableRow(days, time) ELSE <<>>)
         \o TableRows(days, times, time + 1)

\* generateReservationGrid: the elements that gridContainer.innerHTML creates
generateReservationGrid(days, times) == TableRows(days, times, 0)

\* the positions of the elements that carry all of classes
Matches(g, classes) == {i \in 1..Len(g) : classes \subseteq g[i].classList}

\* variant: the first match alone, as querySelector gives it
querySelectorAllFirst(g, classes) ==
    LET nodes == Matches(g, classes \cup {"time-slot"})
    IN [k \in 1..(IF nodes = {} THEN 0 ELSE 1) |->
          CHOOSE i \in nodes : \A j \in nodes : i <= j]

\* querySelectorAll('.time-slot' + classes): the NodeList, positions in document order
querySelectorAll(g, classes) ==
    LET nodes == Matches(g, classes \cup {"time-slot"})
    IN [k \in 1..Cardinality(nodes) |->
          CHOOSE i \in nodes : Cardinality({j \in nodes : j < i}) = k - 1]

\* querySelector(`td[data-day="${day}"][data-time-index="${timeIndex}"]`): the first
\* match in document order; 0 is null
RECURSIVE FirstMatch(_, _, _, _, _)
FirstMatch(g, day, timeIndex, lo, hi) ==
    IF lo > hi THEN 0
    ELSE IF lo = hi THEN (IF g[lo].day = day /\ g[lo].timeIndex = timeIndex THEN lo ELSE 0)
    ELSE LET mid == (lo + hi) \div 2
             first == FirstMatch(g, day, timeIndex, lo, mid)
         IN IF first # 0 THEN first ELSE FirstMatch(g, day, timeIndex, mid + 1, hi)

querySelector(g, day, timeIndex) == FirstMatch(g, day, timeIndex, 1, Len(g))

Range(s) == {s[i] : i \in 1..Len(s)}

contains(el, c) == c \in el.classList

\* the four slot states of the reconciliation engine, read off the classes
IsSelected(el) == contains(el, "selected")
IsReservedByOther(el) == contains(el, "reserved")
IsReservedBySelf(el) == contains(el, "mine")
IsReserved(el) == IsReservedByOther(el) \/ IsReservedBySelf(el)
IsFree(el) == ~IsSelected(el) /\ ~IsReserved(el)

Slots(g) == 1..Len(g)
SelectedSet(g) == {i \in Slots(g) : IsSelected(g[i])}
ReservedSet(g) == {i \in Slots(g) : IsReserved(g[i])}

----------------------------------------------------------------------------
(* toggleSlot: the click listener of a time slot *)

\* the forEach body over the members of the clicked slot's group
toggleGroupSlot(groupSlot, isSelected) ==
    IF contains(groupSlot, "reserved") \/ contains(groupSlot, "mine") THEN groupSlot
    ELSE IF isSelected
         THEN [groupSlot EXCEPT !.classList = @ \ {"selected"}]
         ELSE [groupSlot EXCEPT !.classList = @ \cup {"selected"}]

\* slot.classList.toggle('selected')
toggleSelected(slot) ==
    IF contains(slot, "selected")
    THEN [slot EXCEPT !.classList = @ \ {"selected"}]
    ELSE [slot EXCEPT !.classList = @ \cup {"selected"}]

\* variant: the click toggles the clicked slot alone, whatever its group
toggleSlotSingle(g, i) ==
    IF contains(g[i], "reserved") \/ contains(g[i], "mine") THEN g
    ELSE [g EXCEPT ![i] = toggleSelected(g[i])]

\* variant: a click on a selected group member takes the selection off the clicked
\* slot, not off the member the loop is at
toggleSlotDeselectsClicked(g, i) ==
    IF contains(g[i], "reserved") \/ contains(g[i], "mine") THEN g
    ELSE IF g[i].group # <<>>
         THEN IF contains(g[i], "selected")
              THEN [g EXCEPT ![i] = [@ EXCEPT !.classList = @ \ {"selected"}]]
              ELSE [j \in 1..Len(g) |->
                      IF g[j].group = g[i].group THEN toggleGroupSlot(g[j], FALSE)
                      ELSE g[j]]
         ELSE [g EXCEPT ![i] = toggleSelected(g[i])]

\* variant: the listener does not return on a reserved slot
toggleSlotNoGuard(g, i) ==
    IF g[i].group # <<>>
    THEN LET isSelected == contains(g[i], "selected")
         IN [j \in 1..Len(g) |->
               IF g[j].group = g[i].group THEN toggleGroupSlot(g[j], isSelected)
               ELSE g[j]]
    ELSE [g EXCEPT ![i] = toggleSelected(g[i])]

\* variant: the loop over the group ends at the first reserved member
toggleSlotStopsAtReserved(g, i) ==
    IF contains(g[i], "reserved") \/ contains(g[i], "mine") THEN g
    ELSE IF g[i].group # <<>>
         THEN LET isSelected == contains(g[i], "selected")
              IN [j \in 1..Len(g) |->
                    IF /\ g[j].group = g[i].group
                       /\ \A m \in 1..j : g[m].group = g[i].group =>
                              ~(contains(g[m], "reserved") \/ contains(g[m], "mine"))
                    THEN toggleGroupSlot(g[j], isSelected)
                    ELSE g[j]]
         ELSE [g EXCEPT ![i] = toggleSelected(g[i])]

toggleSlot(g, i) ==
    IF contains(g[i], "reserved") \/ contains(g[i], "mine") THEN g
    ELSE IF g[i].group # <<>>
         THEN LET isSelected == contains(g[i], "selected")
              IN [j \in 1..Len(g) |->
                    IF g[j].group = g[i].group THEN toggleGroupSlot(g[j], isSelected)
                    ELSE g[j]]
         ELSE [g EXCEPT ![i] = toggleSelected(g[i])]

----------------------------------------------------------------------------
(* applySnapshot: updateGridWithReservations *)

\* variant: the id is built without the separator that the restore splits on
uniqueIdNoSeparator(slot) == slot.day \o slot.timeIndex

\* `${slot.dataset.day}-${slot.dataset.timeIndex}`
uniqueId(slot) == slot.day \o <<"-">> \o slot.timeIndex

\* variant: the capture takes the slots that are not selected
selectedSlotsNotSelected(g) ==
    {uniqueId(g[i]) : i \in Slots(g) \ Range(querySelectorAll(g, {"selected"}))}

\* step 1: the ids of the slots that are selected when the push arrives
selectedSlotsBeforeUpdate(g) ==
    {uniqueId(g[i]) : i \in Range(querySelectorAll(g, {"selected"}))}

\* variant: the reset leaves the selected class in place
resetSlotKeepsSelected(slot) ==
    [slot EXCEPT !.textContent = "", !.classList = @ \ {"reserved", "mine"}]

\* step 2, per slot: textContent = ''; classList.remove('reserved', 'mine', 'selected')
resetSlot(slot) ==
    [slot EXCEPT !.textContent = "", !.classList = @ \ {"reserved", "mine", "selected"}]

\* variant: the reset takes the selection off and leaves the reservation marks
resetSlotsSelectedOnly(g) ==
    [j \in 1..Len(g) |-> [g[j] EXCEPT !.classList = @ \ {"selected"}]]

resetSlots(g) == [j \in 1..Len(g) |-> resetSlot(g[j])]

\* `${res.<name>}` of a pushed record: a missing property prints as undefined
property(res, name) == IF name \in DOMAIN res THEN res[name] ELSE <<"undefined">>

\* variant: the comparison with the local identity is inverted
applyReservationInverted(g, res, currentUser) ==
    LET slot == querySelector(g, property(res, "reservation_day"), ToStr(res.time_index))
    IN IF slot # 0
       THEN [g EXCEPT ![slot] =
               [@ EXCEPT !.textContent = res.username,
                         !.classList = @ \cup (IF res.username # currentUser
                                               THEN {"mine"} ELSE {"reserved"})]]
       ELSE g

\* variant: the selector is built from res.day
applyReservationByDay(g, res, currentUser) ==
    LET slot == querySelector(g, property(res, "day"), ToStr(res.time_index))
    IN IF slot # 0
       THEN [g EXCEPT ![slot] =
               [@ EXCEPT !.textContent = res.username,
                         !.classList = @ \cup (IF res.username = currentUser
                                               THEN {"mine"} ELSE {"reserved"})]]
       ELSE g

\* step 3, per record: the forEach body over the pushed reservations
applyReservation(g, res, currentUser) ==
    LET slot == querySelector(g, property(res, "reservation_day"), ToStr(res.time_index))
    IN IF slot # 0
       THEN [g EXCEPT ![slot] =
               [@ EXCEPT !.textContent = res.username,
                         !.classList = @ \cup (IF res.username = currentUser
                                               THEN {"mine"} ELSE {"reserved"})]]
       ELSE g

RECURSIVE applyReservations(_, _, _)
applyReservations(g, reservations, currentUser) ==
    IF reservations = <<>> THEN g
    ELSE applyReservations(applyReservation(g, Head(reservations), currentUser),
                           Tail(reservations), currentUser)

\* const [day, timeIndex] = uniqueId.split('-'), then the querySelector of the restore loop
idSlot(g, id) ==
    LET parts == split(id)
        day == IF Len(parts) >= 1 THEN parts[1] ELSE <<"undefined">>
        timeIndex == IF Len(parts) >= 2 THEN parts[2] ELSE <<"undefined">>
    IN querySelector(g, day, timeIndex)

\* variant: the restore does not look at the reservation classes
restoreSelectionsUnchecked(g, ids) ==
    LET found == {idSlot(g, id) : id \in ids}
    IN [j \in 1..Len(g) |->
          IF j \in found THEN [g[j] EXCEPT !.classList = @ \cup {"selected"}] ELSE g[j]]

\* step 4: the forEach over the captured ids
restoreSelections(g, ids) ==
    LET found == {idSlot(g, id) : id \in ids}
    IN [j \in 1..Len(g) |->
          IF j \in found /\ ~contains(g[j], "reserved") /\ ~contains(g[j], "mine")
          THEN [g[j] EXCEPT !.classList = @ \cup {"selected"}]
          ELSE g[j]]

\* variant: the selections are restored before the reservations are applied
updateGridRestoreFirst(g, reservations, currentUser) ==
    LET ids == selectedSlotsBeforeUpdate(g)
    IN applyReservations(restoreSelections(resetSlots(g), ids), reservations, currentUser)

updateGridWithReservations(g, reservations, currentUser) ==
    LET ids == selectedSlotsBeforeUpdate(g)
    IN restoreSelections(applyReservations(resetSlots(g), reservations, currentUser), ids)

----------------------------------------------------------------------------
(* buildReservationIntent: the payload the submit handler builds *)

reservationDetails(g, selectedSlots) ==
    [k \in 1..Len(selectedSlots) |->
       [day |-> g[selectedSlots[k]].day,
        time_index |-> parseInt(g[selectedSlots[k]].timeIndex)]]

buildReservationIntent(g) == reservationDetails(g, querySelectorAll(g, {"selected"}))

----------------------------------------------------------------------------
(* Inputs *)

\* records the server can push: one per modelled slot and user, in the shape the
\* handler reads, and one for a row the document does not have
Reservations ==
    [reservation_day : {<<ModelDays[i]>> : i \in 1..Len(ModelDays)},
     time_index : ModelTimes, username : Users]
    \cup [reservation_day : {<<ModelDays[1]>>}, time_index : {NumHours}, username : {OtherUser}]

RECURSIVE SeqsUpTo(_, _)
SeqsUpTo(S, n) ==
    IF n = 0 THEN {<<>>}
    ELSE LET shorter == SeqsUpTo(S, n - 1)
         IN shorter \cup {Append(q, x) : q \in shorter, x \in S}

Snapshots == SeqsUpTo(Reservations, MaxSnapshotLen)

\* records that carry the weekday under the name `day`, as the outbound intent does
\* (one per modelled day, for the first hour)
DayKeyedReservations ==
    [day : {<<ModelDays[i]>> : i \in 1..Len(ModelDays)},
     time_index : {GroupFirst}, username : {OtherUser}]

\* the lists SpecPush pushes: records of either shape
PushSnapshots == SeqsUpTo(Reservations \cup DayKeyedReservations, MaxSnapshotLen)

MessageTypes == {"RESERVATION_UPDATE", "SETTINGS_UPDATE"}

\* the data of a message of another type
OtherData == SeqsUpTo(Reservations, 1)

----------------------------------------------------------------------------
(* Page state *)

EmptyStorage == [accessToken |-> NULL, username |-> NULL, allowedHours |-> NULL]
\* localStorage after a successful login of the given user
Session(user) == [accessToken |-> "token", username |-> user, allowedHours |-> "10"]
LoggedInStorage == Session(LocalUser)

\* showMessage(message, type): className = `message-${type}`
showMessage(type) == <<"message", "-", type>>

\* DOMContentLoaded listener up to its updateUI() call, for the given stored session
PageLoad(storage) ==
    /\ localStorage = storage
    /\ messageArea = <<>>
    /\ pending = <<>>
    /\ logins = 0
    /\ reloadTimer = FALSE
    /\ pruned = {}
    /\ justPruned = {}
    /\ before = <<>>
    /\ pushed = <<>>
    /\ clicks = <<>>
    /\ last = "other"
    /\ IF storage.accessToken # NULL
       THEN /\ view = "reservation"
            /\ socket = "open"
            /\ grid = generateReservationGrid(ModelDays, ModelTimes)
       ELSE /\ view = "login"
            /\ socket = NULL
            /\ grid = <<>>

Init == PageLoad(EmptyStorage) \/ PageLoad(LoggedInStorage)

----------------------------------------------------------------------------
(* Handlers *)

\* the records of a pushed list that name a slot, as the handler's selector reads them
NamedBy(data, slot) ==
    {k \in 1..Len(data) : /\ property(data[k], "reservation_day") = slot.day
                          /\ ToStr(data[k].time_index) = slot.timeIndex}

\* click on a time slot
ClickSlot(i) ==
    /\ view = "reservation"
    /\ i \in Slots(grid)
    /\ grid' = toggleSlot(grid, i)
    /\ pruned' = pruned \ (SelectedSet(grid') \ SelectedSet(grid))
    /\ justPruned' = {}
    /\ last' = "other"
    /\ UNCHANGED <<localStorage, socket, view, messageArea, pending, logins, reloadTimer, hist>>

\* socket.onmessage = handleSocketMessage
handleSocketMessage(type, data) ==
    /\ socket = "open"
    /\ IF type = "RESERVATION_UPDATE"
       THEN /\ grid' = updateGridWithReservations(grid, data, localStorage.username)
            /\ pruned' = pruned \cup {i \in SelectedSet(grid) : NamedBy(data, grid[i]) # {}}
            /\ justPruned' = {i \in SelectedSet(grid) :
                                \E k \in NamedBy(data, grid[i]) :
                                    data[k].username # localStorage.username}
       ELSE /\ UNCHANGED <<grid, pruned>>
            /\ justPruned' = {}
    /\ last' = "other"
    /\ UNCHANGED <<localStorage, socket, view, messageArea, pending, logins, reloadTimer, hist>>

\* variant: the handler does not return on an empty NodeList
SubmitReservationNoGuard ==
    /\ view = "reservation"
    /\ Len(pending) < MaxInFlight
    /\ pending' = Append(pending, querySelectorAll(grid, {"selected"}))
    /\ last' = "other"
    /\ justPruned' = {}
    /\ UNCHANGED <<grid, localStorage, socket, view, messageArea, logins, reloadTimer, pruned,
                   hist>>

\* click on the submit button, up to the await of fetchWithAuth('/reserve')
SubmitReservation ==
    /\ view = "reservation"
    /\ LET selectedSlots == querySelectorAll(grid, {"selected"})
       IN IF Len(selectedSlots) = 0
          THEN /\ messageArea' = showMessage("error")
               /\ last' = "submitEmpty"
               /\ UNCHANGED pending
          ELSE /\ Len(pending) < MaxInFlight
               /\ pending' = Append(pending, selectedSlots)
               /\ last' = "other"
               /\ UNCHANGED messageArea
    /\ justPruned' = {}
    /\ UNCHANGED <<grid, localStorage, socket, view, logins, reloadTimer, pruned, hist>>

RemoveAt(q, k) == SubSeq(q, 1, k - 1) \o SubSeq(q, k + 1, Len(q))

\* variant: the acknowledgment resets the submitted slots to bare time slots
removeSelectedResetsSlot(g, selectedSlots) ==
    [j \in 1..Len(g) |->
       IF j \in Range(selectedSlots)
       THEN [g[j] EXCEPT !.classList = {"time-slot"}, !.textContent = ""]
       ELSE g[j]]

\* selectedSlots.forEach(slot => slot.classList.remove('selected'))
removeSelected(g, selectedSlots) ==
    [j \in 1..Len(g) |->
       IF j \in Range(selectedSlots) THEN [g[j] EXCEPT !.classList = @ \ {"selected"}]
       ELSE g[j]]

\* the /reserve request k is answered OK: the rest of the try block
ReserveSucceeded(k) ==
    /\ k \in 1..Len(pending)
    /\ messageArea' = showMessage("success")
    /\ grid' = removeSelected(grid, pending[k])
    /\ pending' = RemoveAt(pending, k)
    /\ last' = "reserveOk"
    /\ justPruned' = {}
    /\ UNCHANGED <<localStorage, socket, view, logins, reloadTimer, pruned, hist>>

\* variant: the catch block clears the selection as the success path does
reserveFailedClears(g) ==
    [j \in 1..Len(g) |-> [g[j] EXCEPT !.classList = @ \ {"selected"}]]

\* the catch block of the submit handler: it leaves the document alone
reserveFailed(g) == g

\* the /reserve request k is answered with a non-OK status other than 401/403
ReserveRejected(k) ==
    /\ k \in 1..Len(pending)
    /\ messageArea' = showMessage("error")
    /\ grid' = reserveFailed(grid)
    /\ pending' = RemoveAt(pending, k)
    /\ last' = "reserveRejected"
    /\ justPruned' = {}
    /\ UNCHANGED <<localStorage, socket, view, logins, reloadTimer, pruned, hist>>

\* fetch rejects (network error) or response.json() throws
ReserveNetworkError(k) ==
    /\ k \in 1..Len(pending)
    /\ messageArea' = showMessage("error")
    /\ grid' = reserveFailed(grid)
    /\ pending' = RemoveAt(pending, k)
    /\ last' = "reserveNetworkError"
    /\ justPruned' = {}
    /\ UNCHANGED <<localStorage, socket, view, logins, reloadTimer, pruned, hist>>

\* variant: the socket is closed but the variable keeps it
handleLogoutKeepsSocket ==
    /\ socket' = socket
    /\ localStorage' = EmptyStorage
    /\ messageArea' = showMessage("success")
    /\ reloadTimer' = TRUE

\* handleLogout(message)
handleLogout ==
    /\ socket' = NULL
    /\ localStorage' = EmptyStorage
    /\ messageArea' = showMessage("success")
    /\ reloadTimer' = TRUE

\* the /reserve request k is answered 401 or 403: fetchWithAuth logs out and throws
\* the session-expired error, which the catch block swallows
ReserveSessionExpired(k) ==
    /\ k \in 1..Len(pending)
    /\ handleLogout
    /\ grid' = reserveFailed(grid)
    /\ pending' = RemoveAt(pending, k)
    /\ last' = "reserveExpired"
    /\ justPruned' = {}
    /\ UNCHANGED <<view, logins, pruned, hist>>

\* click on the logout button
LogoutClick ==
    /\ view = "reservation"
    /\ handleLogout
    /\ last' = "other"
    /\ justPruned' = {}
    /\ UNCHANGED <<grid, view, pending, logins, pruned, hist>>

\* setTimeout(() => window.location.reload(), 500): the page is loaded again
Reload ==
    /\ reloadTimer
    /\ reloadTimer' = FALSE
    /\ messageArea' = <<>>
    /\ pending' = <<>>
    /\ logins' = 0
    /\ pruned' = {}
    /\ justPruned' = {}
    /\ last' = "other"
    /\ UNCHANGED <<localStorage, hist>>
    /\ IF localStorage.accessToken # NULL
       THEN /\ view' = "reservation"
            /\ socket' = "open"
            /\ grid' = generateReservationGrid(ModelDays, ModelTimes)
       ELSE /\ view' = "login"
            /\ socket' = NULL
            /\ grid' = <<>>

\* submit of the login form, up to the await of fetch('/login')
LoginSubmit ==
    /\ view = "login"
    /\ logins < MaxInFlight
    /\ logins' = logins + 1
    /\ last' = "other"
    /\ justPruned' = {}
    /\ UNCHANGED <<grid, localStorage, socket, view, messageArea, pending, reloadTimer, pruned,
                   hist>>

\* /login answered OK: store the session, then updateUI()
LoginSucceeded ==
    /\ logins > 0
    /\ logins' = logins - 1
    /\ localStorage' = LoggedInStorage
    /\ messageArea' = showMessage("success")
    /\ view' = "reservation"
    /\ socket' = "open"
    /\ grid' = generateReservationGrid(ModelDays, ModelTimes)
    /\ pending' = [k \in 1..Len(pending) |-> <<>>]
    /\ pruned' = {}
    /\ justPruned' = {}
    /\ last' = "other"
    /\ UNCHANGED <<reloadTimer, hist>>

\* /login answered with an error, or the request failed
LoginFailed ==
    /\ logins > 0
    /\ logins' = logins - 1
    /\ messageArea' = showMessage("error")
    /\ last' = "other"
    /\ justPruned' = {}
    /\ UNCHANGED <<grid, localStorage, socket, view, pending, reloadTimer, pruned, hist>>

\* the timer of showMessage clears the message area
ClearMessage ==
    /\ messageArea # <<>>
    /\ messageArea' = <<>>
    /\ UNCHANGED <<grid, localStorage, socket, view, pending, logins, reloadTimer, pruned,
                   justPruned, hist, last>>

Next ==
    \/ \E i \in Slots(grid) : ClickSlot(i)
    \/ \E data \in Snapshots : handleSocketMessage("RESERVATION_UPDATE", data)
    \/ \E type \in MessageTypes \ {"RESERVATION_UPDATE"}, data \in OtherData :
          handleSocketMessage(type, data)
    \/ SubmitReservation
    \/ \E k \in 1..Len(pending) : ReserveSucceeded(k)
    \/ \E k \in 1..Len(pending) : ReserveRejected(k)
    \/ \E k \in 1..Len(pending) : ReserveNetworkError(k)
    \/ \E k \in 1..Len(pending) : ReserveSessionExpired(k)
    \/ LogoutClick
    \/ Reload
    \/ LoginSubmit
    \/ LoginSucceeded
    \/ LoginFailed
    \/ ClearMessage

Spec == Init /\ [][Next]_vars

TypeOK ==
    /\ view \in {"login", "reservation"}
    /\ socket \in {NULL, "open"}
    /\ Len(pending) <= MaxInFlight
    /\ logins \in 0..MaxInFlight
    /\ \A i \in Slots(grid) : grid[i].classList \subseteq {"time-slot", "selected", "reserved", "mine"}

----------------------------------------------------------------------------
(* Clicks alone, on a grid whose reservations are fixed: the page as it is after
   one push on the freshly built grid, then only slot clicks *)

InitToggle ==
    /\ \E user \in Users, data \in Snapshots :
          /\ localStorage = Session(user)
          /\ grid = updateGridWithReservations(
                       generateReservationGrid(ModelDays, ModelTimes), data, user)
    /\ socket = "open"
    /\ view = "reservation"
    /\ messageArea = <<>>
    /\ pending = <<>>
    /\ logins = 0
    /\ reloadTimer = FALSE
    /\ pruned = {}
    /\ justPruned = {}
    /\ before = <<>>
    /\ pushed = <<>>
    /\ clicks = <<>>
    /\ last = "other"

NextToggle == \E i \in Slots(grid) : ClickSlot(i)

SpecToggle == InitToggle /\ [][NextToggle]_vars

----------------------------------------------------------------------------
(* applySnapshot as a function of the grid it finds: slot clicks and pushes on a
   logged-in page, with the grid before the push and the pushed list recorded *)

InitPush ==
    /\ \E user \in Users : localStorage = Session(user)
    /\ grid = generateReservationGrid(ModelDays, ModelTimes)
    /\ socket = "open"
    /\ view = "reservation"
    /\ messageArea = <<>>
    /\ pending = <<>>
    /\ logins = 0
    /\ reloadTimer = FALSE
    /\ pruned = {}
    /\ justPruned = {}
    /\ before = <<>>
    /\ pushed = <<>>
    /\ clicks = <<>>
    /\ last = "other"

PushClick(i) ==
    /\ i \in Slots(grid)
    /\ grid' = toggleSlot(grid, i)
    /\ before' = <<>>
    /\ pushed' = <<>>
    /\ UNCHANGED <<localStorage, socket, view, messageArea, pending, logins, reloadTimer,
                   pruned, justPruned, clicks, last>>

PushSnapshot(data) ==
    /\ socket = "open"
    /\ grid' = updateGridWithReservations(grid, data, localStorage.username)
    /\ before' = grid
    /\ pushed' = data
    /\ UNCHANGED <<localStorage, socket, view, messageArea, pending, logins, reloadTimer,
                   pruned, justPruned, clicks, last>>

NextPush ==
    \/ \E i \in Slots(grid) : PushClick(i)
    \/ \E data \in PushSnapshots : PushSnapshot(data)

SpecPush == InitPush /\ [][NextPush]_vars

\* a push has just been handled
JustPushed == before # <<>>

----------------------------------------------------------------------------
(* The click listener as a function of the grid it finds: on a new page, with
   all 24 rows of the first days of the week, one reservation list arrives, then
   the user clicks slots; every click is recorded with the grid it found *)

ClickDays == SubSeq(Days, 1, MaxClickDays)

\* the records of the list that arrives before the clicks: the second overnight
\* hour and the first daytime hour of the first day, for either user
ClickReservations ==
    [reservation_day : {<<Days[1]>>}, time_index : {GroupFirst + 1, GroupLast + 1},
     username : Users]

ClickSnapshots == SeqsUpTo(ClickReservations, MaxClickSnapshotLen)

InitClicks ==
    /\ localStorage = LoggedInStorage
    /\ grid = generateReservationGrid(ClickDays, 0..(NumHours - 1))
    /\ socket = "open"
    /\ view = "reservation"
    /\ messageArea = <<>>
    /\ pending = <<>>
    /\ logins = 0
    /\ reloadTimer = FALSE
    /\ pruned = {}
    /\ justPruned = {}
    /\ before = <<>>
    /\ pushed = <<>>
    /\ clicks = <<>>
    /\ last = "other"

\* the reservation list of the new page
ClicksSnapshot(data) ==
    /\ socket = "open"
    /\ clicks = <<>>
    /\ pushed = <<>>
    /\ data # <<>>
    /\ grid' = updateGridWithReservations(grid, data, localStorage.username)
    /\ pushed' = data
    /\ UNCHANGED <<localStorage, socket, view, messageArea, pending, logins, reloadTimer,
                   pruned, justPruned, before, clicks, last>>

ClicksClick(i) ==
    /\ Len(clicks) < MaxClicks
    /\ i \in Slots(grid)
    /\ grid' = toggleSlot(grid, i)
    /\ clicks' = Append(clicks, [slot |-> i, grid |-> grid])
    /\ UNCHANGED <<localStorage, socket, view, messageArea, pending, logins, reloadTimer,
                   pruned, justPruned, before, pushed, last>>

NextClicks ==
    \/ \E data \in ClickSnapshots : ClicksSnapshot(data)
    \/ \E i \in Slots(grid) : ClicksClick(i)

SpecClicks == InitClicks /\ [][NextClicks]_vars

----------------------------------------------------------------------------
(* The table as generateReservationGrid builds it on a new page, all seven days
   and all 24 hours, and the first clicks on it *)

InitTable ==
    /\ localStorage = LoggedInStorage
    /\ grid = generateReservationGrid(Days, 0..(NumHours - 1))
    /\ socket = "open"
    /\ view = "reservation"
    /\ messageArea = <<>>
    /\ pending = <<>>
    /\ logins = 0
    /\ reloadTimer = FALSE
    /\ pruned = {}
    /\ justPruned = {}
    /\ before = <<>>
    /\ pushed = <<>>
    /\ clicks = <<>>
    /\ last = "other"

TableClick(i) ==
    /\ Len(clicks) < MaxTableClicks
    /\ i \in Slots(grid)
    /\ grid' = toggleSlot(grid, i)
    /\ clicks' = Append(clicks, [slot |-> i, grid |-> grid])
    /\ UNCHANGED <<localStorage, socket, view, messageArea, pending, logins, reloadTimer,
                   pruned, justPruned, before, pushed, last>>

NextTable == \E i \in Slots(grid) : TableClick(i)

SpecTable == InitTable /\ [][NextTable]_vars

----------------------------------------------------------------------------
(* The admin page (src/unnamed/part_000): its click listener and its
   updateGridWithReservations *)

\* localStorage of the admin page after a login
AdminSession(user) == [adminAccessToken |-> "token", adminUsername |-> user]

\* the click listener of a slot of the admin table: in the loop over the group,
\* `slot.classList.remove('selected')` is on the clicked slot
adminToggleSlot(g, i) ==
    IF g[i].group # <<>>
    THEN LET isSelected == contains(g[i], "selected")
         IN [j \in 1..Len(g) |->
               IF isSelected
               THEN (IF j = i THEN [g[j] EXCEPT !.classList = @ \ {"selected"}] ELSE g[j])
               ELSE (IF g[j].group = g[i].group
                     THEN [g[j] EXCEPT !.classList = @ \cup {"selected"}]
                     ELSE g[j])]
    ELSE [g EXCEPT ![i] = toggleSelected(g[i])]

\* the reset loop: slot.className = 'time-slot', then 'selected' again if it was there
adminResetSlot(slot) ==
    [slot EXCEPT !.textContent = "",
                 !.classList = {"time-slot"} \cup (@ \cap {"selected"})]

\* the forEach body over the pushed reservations
adminApplyReservation(g, res, adminUsername) ==
    LET slot == querySelector(g, property(res, "reservation_day"), ToStr(res.time_index))
    IN IF slot # 0
       THEN [g EXCEPT ![slot] =
               [@ EXCEPT !.textContent = res.username,
                         !.classList = @ \cup (IF res.username = adminUsername
                                               THEN {"mine"} ELSE {"reserved"})]]
       ELSE g

RECURSIVE adminApplyReservations(_, _, _)
adminApplyReservations(g, reservations, adminUsername) ==
    IF reservations = <<>> THEN g
    ELSE adminApplyReservations(adminApplyReservation(g, Head(reservations), adminUsername),
                                Tail(reservations), adminUsername)

adminUpdateGridWithReservations(g, reservations, adminUsername) ==
    adminApplyReservations([j \in 1..Len(g) |-> adminResetSlot(g[j])],
                           reservations, adminUsername)

\* variant: the handler does not look at the message type
adminOnMessageAnyType(g, type, data, adminUsername) ==
    adminUpdateGridWithReservations(g, data, adminUsername)

\* socket.onmessage of connectWebSocket
adminOnMessage(g, type, data, adminUsername) ==
    IF type = "RESERVATION_UPDATE"
    THEN adminUpdateGridWithReservations(g, data, adminUsername)
    ELSE g

----------------------------------------------------------------------------
(* One page on the socket feed, the user page or the admin page: slot clicks
   and socket messages, each recorded with the grid it found *)

InitFeed ==
    /\ \E page \in {"reservation", "admin"} :
          /\ view = page
          /\ localStorage = IF page = "admin" THEN AdminSession(LocalUser)
                                              ELSE LoggedInStorage
    /\ grid = generateReservationGrid(ModelDays, ModelTimes)
    /\ socket = "open"
    /\ messageArea = <<>>
    /\ pending = <<>>
    /\ logins = 0
    /\ reloadTimer = FALSE
    /\ pruned = {}
    /\ justPruned = {}
    /\ before = <<>>
    /\ pushed = <<>>
    /\ clicks = <<>>
    /\ last = "other"

FeedClick(i) ==
    /\ i \in Slots(grid)
    /\ grid' = IF view = "admin" THEN adminToggleSlot(grid, i) ELSE toggleSlot(grid, i)
    /\ before' = grid
    /\ pushed' = <<>>
    /\ last' = "click"
    /\ UNCHANGED <<localStorage, socket, view, messageArea, pending, logins, reloadTimer,
                   pruned, justPruned, clicks>>

FeedMessage(type, data) ==
    /\ socket = "open"
    /\ grid' = IF view = "admin"
               THEN adminOnMessage(grid, type, data, localStorage.adminUsername)
               ELSE IF type = "RESERVATION_UPDATE"
                    THEN updateGridWithReservations(grid, data, localStorage.username)
                    ELSE grid
    /\ before' = grid
    /\ pushed' = data
    /\ last' = type
    /\ UNCHANGED <<localStorage, socket, view, messageArea, pending, logins, reloadTimer,
                   pruned, justPruned, clicks>>

NextFeed ==
    \/ \E i \in Slots(grid) : FeedClick(i)
    \/ \E type \in MessageTypes, data \in OtherData : FeedMessage(type, data)

SpecFeed == InitFeed /\ [][NextFeed]_vars

----------------------------------------------------------------------------
(* One submission on the user page and the two events that follow it, in either
   order: the success answer of /reserve and the push of the list that holds the
   submitted slots. The grid at the submission and the pushed list are recorded;
   the user clicks only before submitting *)

InitAck ==
    /\ localStorage = LoggedInStorage
    /\ grid = generateReservationGrid(ModelDays, ModelTimes)
    /\ socket = "open"
    /\ view = "reservation"
    /\ messageArea = <<>>
    /\ pending = <<>>
    /\ logins = 0
    /\ reloadTimer = FALSE
    /\ pruned = {}
    /\ justPruned = {}
    /\ before = <<>>
    /\ pushed = <<>>
    /\ clicks = <<>>
    /\ last = "other"

AckClick(i) ==
    /\ before = <<>>
    /\ i \in Slots(grid)
    /\ grid' = toggleSlot(grid, i)
    /\ UNCHANGED <<localStorage, socket, view, messageArea, pending, logins, reloadTimer,
                   pruned, justPruned, hist, last>>

\* a push before the submission
AckEarlierPush(data) ==
    /\ before = <<>>
    /\ socket = "open"
    /\ grid' = updateGridWithReservations(grid, data, localStorage.username)
    /\ UNCHANGED <<localStorage, socket, view, messageArea, pending, logins, reloadTimer,
                   pruned, justPruned, hist, last>>

\* the submit handler up to the await, with slots selected
AckSubmit ==
    /\ before = <<>>
    /\ SelectedSet(grid) # {}
    /\ pending' = <<querySelectorAll(grid, {"selected"})>>
    /\ before' = grid
    /\ UNCHANGED <<grid, localStorage, socket, view, messageArea, logins, reloadTimer,
                   pruned, justPruned, pushed, clicks, last>>

\* the /reserve request is answered OK
AckAnswer ==
    /\ pending # <<>>
    /\ messageArea' = showMessage("success")
    /\ grid' = removeSelected(grid, pending[1])
    /\ pending' = <<>>
    /\ last' = "reserveOk"
    /\ UNCHANGED <<localStorage, socket, view, logins, reloadTimer, pruned, justPruned, hist>>

\* data holds, for every slot of g that is selected, records of username and of
\* nobody else
Confirms(data, g, username) ==
    \A i \in SelectedSet(g) :
        /\ NamedBy(data, g[i]) # {}
        /\ \A k \in NamedBy(data, g[i]) : data[k].username = username

\* the push of the list that holds the submitted slots
AckPush(data) ==
    /\ before # <<>>
    /\ pushed = <<>>
    /\ socket = "open"
    /\ Confirms(data, before, localStorage.username)
    /\ grid' = updateGridWithReservations(grid, data, localStorage.username)
    /\ pushed' = data
    /\ last' = "other"
    /\ UNCHANGED <<localStorage, socket, view, messageArea, pending, logins, reloadTimer,
                   pruned, justPruned, before, clicks>>

NextAck ==
    \/ \E i \in Slots(grid) : AckClick(i)
    \/ \E data \in OtherData : AckEarlierPush(data)
    \/ AckSubmit
    \/ AckAnswer
    \/ \E data \in Snapshots : AckPush(data)

SpecAck == InitAck /\ [][NextAck]_vars

\* the answer and the push of a submission have both been handled
BothHandled == before # <<>> /\ pending = <<>> /\ pushed # <<>>

\* the click handled last: the slot clicked and the grid the click found
LastClick == clicks[Len(clicks)]

\* the grid as the k-th click left it
AfterClick(k) == IF k < Len(clicks) THEN clicks[k + 1].grid ELSE grid

----------------------------------------------------------------------------
(* Properties *)

GroupKeys(g) == {g[i].group : i \in Slots(g)} \ {<<>>}
GroupMembers(g, key) == {i \in Slots(g) : g[i].group = key}

\* slot i of g is one of the entries of the reservation intent built from g
InIntent(g, i) ==
    LET intent == buildReservationIntent(g)
    IN \E k \in 1..Len(intent) :
          intent[k].day = g[i].day /\ intent[k].time_index = parseInt(g[i].timeIndex)

ReserveFailureKinds == {"reserveRejected", "reserveNetworkError", "reserveExpired"}

\* C1: under every interleaving of slot clicks, pushes and submission answers, no
\* slot is selected and reserved at once: the selection is a subset of the slots
\* that are neither reserved_by_other nor reserved_by_self.
C1_SelectionIsNeverReserved == SelectedSet(grid) \cap ReservedSet(grid) = {}

\* a submission was acknowledged while one slot, pruned by a push, is reserved
\* and another is selected
C1_Witness ==
    /\ last = "reserveOk"
    /\ \E i \in pruned : IsReserved(grid[i])
    /\ SelectedSet(grid) # {}

\* C2: in every reachable state the members of a group that are not reserved all
\* have the same selection status, also after a push reserved a member of a
\* selected group and a later push freed it again.
C2_NoMixedGroup ==
    \A i, j \in Slots(grid) :
        (/\ grid[i].group # <<>>
         /\ grid[i].group = grid[j].group
         /\ ~IsReserved(grid[i])
         /\ ~IsReserved(grid[j])) => (IsSelected(grid[i]) <=> IsSelected(grid[j]))

\* C3: with the reservations fixed and no selection to start with, after any
\* sequence of slot clicks the non-reserved members of every group are either all
\* selected or all unselected.
C3_ClicksKeepGroupsUniform ==
    \A key \in GroupKeys(grid) :
        LET open == {i \in GroupMembers(grid, key) : ~IsReserved(grid[i])}
        IN open \subseteq SelectedSet(grid) \/ open \cap SelectedSet(grid) = {}

\* a group with a reserved member whose other members a click has selected
C3_Witness ==
    \E key \in GroupKeys(grid) :
        /\ \E i \in GroupMembers(grid, key) : IsReserved(grid[i])
        /\ \E i \in GroupMembers(grid, key) : IsSelected(grid[i])

\* C4: a click on a non-reserved member of a group decides by "is any member of
\* the group selected": if so, every member is deselected, also when the clicked
\* member is not selected; otherwise the non-reserved members are selected.
C4_AggregateFlagDecides ==
    [][\A i \in Slots(grid) :
          (ClickSlot(i) /\ ~IsReserved(grid[i]) /\ grid[i].group # <<>>) =>
             LET members == GroupMembers(grid, grid[i].group)
             IN IF \E j \in members : IsSelected(grid[j])
                THEN \A j \in members : ~IsSelected(grid'[j])
                ELSE \A j \in members : ~IsReserved(grid[j]) => IsSelected(grid'[j])]_vars

\* C5: a push never leaves a slot selected and reserved; a slot is selected after
\* the push only if it was selected before and no record of the push names it; a
\* slot that was selected and is named by the push ends reserved and not selected.
C5_ReservationWins ==
    JustPushed =>
        \A i \in Slots(grid) :
            LET named == NamedBy(pushed, before[i]) # {}
            IN /\ ~(IsSelected(grid[i]) /\ IsReserved(grid[i]))
               /\ IsSelected(grid[i]) => (IsSelected(before[i]) /\ ~named)
               /\ (IsSelected(before[i]) /\ named) =>
                      (IsReserved(grid[i]) /\ ~IsSelected(grid[i]))

\* a push that named one selected slot and left another selected slot alone
C5_Witness ==
    /\ JustPushed
    /\ \E i \in Slots(grid) : IsSelected(before[i]) /\ NamedBy(pushed, before[i]) # {}
    /\ \E i \in Slots(grid) : IsSelected(before[i]) /\ IsSelected(grid[i])

\* C6: right after the success answer of a submission is handled no slot is
\* selected, whatever clicks and pushes came between sending and the answer.
C6_AckClearsSelection == (last = "reserveOk") => SelectedSet(grid) = {}

\* C7: handling a failed submission (non-OK answer, session expiry, network
\* error) leaves the selection as it was, so the intent built next is the same.
C7_FailureKeepsSelection ==
    [][(\E k \in 1..Len(pending) :
           ReserveRejected(k) \/ ReserveNetworkError(k) \/ ReserveSessionExpired(k)) =>
          /\ SelectedSet(grid') = SelectedSet(grid)
          /\ buildReservationIntent(grid') = buildReservationIntent(grid)]_vars

\* a failure was handled while slots were selected
C7_Witness == last \in ReserveFailureKinds /\ SelectedSet(grid) # {}

\* C8: a slot that was selected when a push reserved it for another user is
\* reserved_by_other right after that push, and it is in no reservation intent
\* built from then on until a click selects it again.
C8_PrunedSlotLeavesIntent ==
    /\ \A i \in justPruned : IsReservedByOther(grid[i]) /\ ~InIntent(grid, i)
    /\ \A i \in pruned : ~InIntent(grid, i)

\* a push has just reserved a selected slot for another user, and other slots
\* are still in the intent
C8_Witness == justPruned # {} /\ Len(buildReservationIntent(grid)) > 0

\* C9: a slot that a push took out of the selection stays out of it, also when a
\* later push no longer names it, until a click selects it again.
C9_PruningIsPermanent == \A i \in pruned : ~IsSelected(grid[i])

\* a pruned slot that a later push has freed
C9_Witness == \E i \in pruned : IsFree(grid[i]) /\ grid[i].textContent = ""

\* C10: applying the pushed list a second time to the grid the push produced gives
\* that same grid, classes and text of every slot.
C10_PushIsIdempotent ==
    JustPushed => updateGridWithReservations(grid, pushed, localStorage.username) = grid

\* a push of a non-empty list on a grid with selected slots, one of them named
C10_Witness ==
    /\ JustPushed
    /\ Len(pushed) > 0
    /\ SelectedSet(grid) # {}
    /\ \E i \in Slots(grid) : IsSelected(before[i]) /\ IsReserved(grid[i])

\* the records of data whose property `name` and time_index spell the attributes of slot
KeyedBy(data, name, slot) ==
    {k \in 1..Len(data) : /\ name \in DOMAIN data[k]
                          /\ data[k][name] = slot.day
                          /\ ToStr(data[k].time_index) = slot.timeIndex}

\* the last record of data that names slot
LastNaming(data, slot) ==
    CHOOSE k \in NamedBy(data, slot) : \A m \in NamedBy(data, slot) : m <= k

\* the reservation class a record of username puts on a slot
MarkOf(username) == IF username = localStorage.username THEN "mine" ELSE "reserved"

\* C11: a push replaces the reservations wholesale: after it a slot is reserved
\* and labelled exactly when the pushed list has a record for it, whatever was
\* pushed before; a slot without a record is free or selected and has no label.
C11_SnapshotReplaces ==
    JustPushed =>
        \A i \in Slots(grid) :
            LET named == NamedBy(pushed, before[i]) # {}
            IN /\ IsReserved(grid[i]) <=> named
               /\ (grid[i].textContent # "") <=> named
               /\ ~named => (IsFree(grid[i]) \/ IsSelected(grid[i]))

\* a push that freed a slot an earlier push had reserved, and reserved another
C11_Witness ==
    /\ JustPushed
    /\ \E i \in Slots(grid) : /\ IsReserved(before[i]) /\ before[i].textContent # ""
                              /\ NamedBy(pushed, before[i]) = {}
                              /\ IsFree(grid[i]) /\ grid[i].textContent = ""
    /\ \E j \in Slots(grid) : IsFree(before[j]) /\ IsReserved(grid[j])

\* C12: a push keeps the selection that is still valid and adds none: a slot
\* selected before the push and without a record in it stays selected, and the
\* selection after the push is a part of the selection before it.
C12_PushKeepsValidSelection ==
    JustPushed =>
        /\ SelectedSet(grid) \subseteq SelectedSet(before)
        /\ \A i \in SelectedSet(before) :
              NamedBy(pushed, before[i]) = {} => IsSelected(grid[i])

\* a push of records for other slots found one slot selected and one free, and
\* left both as they were
C12_Witness ==
    /\ JustPushed
    /\ Len(pushed) > 0
    /\ \E i, j \in Slots(grid) :
          /\ IsSelected(before[i]) /\ IsSelected(grid[i])
          /\ IsFree(before[j]) /\ IsFree(grid[j])
          /\ \E m \in Slots(grid) : NamedBy(pushed, before[m]) # {} /\ IsReserved(grid[m])

Hour(slot) == parseInt(slot.timeIndex)
DayIndex(day) == CHOOSE d \in 1..Len(Days) : <<Days[d]>> = day
Overnight(slot) == Hour(slot) \in GroupFirst..GroupLast

\* the overnight slots of the day of slot i
Night(g, i) == {j \in Slots(g) : g[j].day = g[i].day /\ Overnight(g[j])}

\* C15: on a grid where no overnight slot of a day is reserved or selected, a
\* click on any overnight slot of the day selects all six of them, and a
\* following click on any of the six deselects all six.
C15_GroupRoundTrip ==
    \A k \in 1..Len(clicks) :
        LET g0 == clicks[k].grid
            night == Night(g0, clicks[k].slot)
        IN (Overnight(g0[clicks[k].slot]) /\ \A j \in night : IsFree(g0[j])) =>
              /\ Cardinality(night) = 6
              /\ \A j \in night : IsSelected(AfterClick(k)[j])
              /\ (k < Len(clicks) /\ clicks[k + 1].slot \in night) =>
                    \A j \in night : IsFree(AfterClick(k + 1)[j])

\* two clicks on different overnight slots of a day that was free: all six slots
\* were selected between the clicks and all six are free now
C15_Witness ==
    /\ Len(clicks) = 2
    /\ clicks[1].slot # clicks[2].slot
    /\ Overnight(grid[clicks[1].slot])
    /\ clicks[2].slot \in Night(grid, clicks[1].slot)
    /\ \A j \in Night(grid, clicks[1].slot) :
          IsFree(clicks[1].grid[j]) /\ IsSelected(clicks[2].grid[j]) /\ IsFree(grid[j])

\* C16: a click on a slot that is reserved, by the local user or by another,
\* changes no slot of the grid, the other slots of its group included.
C16_ReservedSlotIsInert ==
    clicks # <<>> => (IsReserved(LastClick.grid[LastClick.slot]) => grid = LastClick.grid)

\* a click on a reserved overnight slot whose group has selected members
C16_Witness ==
    /\ clicks # <<>>
    /\ IsReserved(LastClick.grid[LastClick.slot])
    /\ Overnight(grid[LastClick.slot])
    /\ \E j \in Night(grid, LastClick.slot) : IsSelected(grid[j])

\* C17: a click on a group member that is not reserved, in a group with reserved
\* members, leaves the reserved members as they were (state, label, not
\* selected) and toggles every member that is not reserved.
C17_ReservedMembersSkipped ==
    clicks # <<>> =>
        LET g0 == LastClick.grid
            i == LastClick.slot
            members == GroupMembers(g0, g0[i].group)
        IN (g0[i].group # <<>> /\ ~IsReserved(g0[i]) /\ \E j \in members : IsReserved(g0[j])) =>
              \A j \in members :
                  IF IsReserved(g0[j])
                  THEN grid[j] = g0[j] /\ ~IsSelected(grid[j])
                  ELSE /\ IsSelected(grid[j]) # IsSelected(g0[j])
                       /\ IsSelected(grid[j]) # IsSelected(g0[i])

\* a click selected the members after the reserved one in document order, the
\* reserved member kept its label
C17_Witness ==
    /\ clicks # <<>>
    /\ ~IsReserved(grid[LastClick.slot])
    /\ \E j, m \in GroupMembers(grid, grid[LastClick.slot].group) :
          /\ j < m
          /\ IsReserved(grid[j]) /\ grid[j].textContent # ""
          /\ ~IsSelected(LastClick.grid[m]) /\ IsSelected(grid[m])

\* the intent holds exactly the selected slots, each once
IntentIsSelection(g) ==
    LET intent == buildReservationIntent(g)
    IN /\ Len(intent) = Cardinality(SelectedSet(g))
       /\ \A i \in SelectedSet(g) :
             \E k \in 1..Len(intent) :
                 intent[k].day = g[i].day /\ intent[k].time_index = Hour(g[i])
       /\ \A k, m \in 1..Len(intent) : intent[k] = intent[m] => k = m

\* C18 as stated: the reservation intent holds exactly the selected slots, each
\* once, day by day in week order and by ascending hour within a day.
C18_IntentDayByDay ==
    LET intent == buildReservationIntent(grid)
    IN /\ IntentIsSelection(grid)
       /\ \A k, m \in 1..Len(intent) :
             k < m => \/ DayIndex(intent[k].day) < DayIndex(intent[m].day)
                      \/ /\ intent[k].day = intent[m].day
                         /\ intent[k].time_index < intent[m].time_index

\* C18 amended: the reservation intent holds exactly the selected slots, each
\* once, in document order of the table: by ascending hour, and within one hour
\* by day in week order.
C18_IntentRowByRow ==
    LET intent == buildReservationIntent(grid)
    IN /\ IntentIsSelection(grid)
       /\ \A k, m \in 1..Len(intent) :
             k < m => \/ intent[k].time_index < intent[m].time_index
                      \/ /\ intent[k].time_index = intent[m].time_index
                         /\ DayIndex(intent[k].day) < DayIndex(intent[m].day)

\* two selected slots, the one of the later day in the earlier hour
C18_Witness ==
    \E i, j \in SelectedSet(grid) :
        /\ DayIndex(grid[i].day) > DayIndex(grid[j].day)
        /\ Hour(grid[i]) < Hour(grid[j])
        /\ Len(buildReservationIntent(grid)) >= 2

\* C19: the table as built has 7 x 24 = 168 slots, one per day and hour, all
\* free and without label; a slot has a group exactly when its hour is in 0..5,
\* and the 7 groups are, day by day, the six overnight slots of that day.
C19_GridAsBuilt ==
    /\ Len(grid) = 168
    /\ {<<grid[i].day, Hour(grid[i])>> : i \in Slots(grid)} =
           {<<Days[d]>> : d \in 1..7} \X (0..23)
    /\ clicks = <<>> => \A i \in Slots(grid) : IsFree(grid[i]) /\ grid[i].textContent = ""
    /\ \A i \in Slots(grid) : (grid[i].group # <<>>) <=> (Hour(grid[i]) \in 0..5)
    /\ Cardinality(GroupKeys(grid)) = 7
    /\ \A key \in GroupKeys(grid) :
          /\ Cardinality(GroupMembers(grid, key)) = 6
          /\ \E d \in 1..7 :
                \A i \in Slots(grid) :
                    (grid[i].group = key) <=>
                        (grid[i].day = <<Days[d]>> /\ grid[i].group # <<>>)

\* the new table: the slot of Sunday 23 is there, without group, and Sunday 5
\* is in a group
C19_Witness ==
    /\ clicks = <<>>
    /\ \A i \in Slots(grid) : IsFree(grid[i])
    /\ \E i, j \in Slots(grid) :
          /\ grid[i].day = <<"Sunday">> /\ Hour(grid[i]) = 23 /\ grid[i].group = <<>>
          /\ grid[j].day = <<"Sunday">> /\ Hour(grid[j]) = 5 /\ grid[j].group # <<>>

\* C20: a click changes little: on a slot of hour 6..23 that is not reserved it
\* flips the selection of the clicked slot and leaves every other slot as it
\* was; on an overnight slot it changes overnight slots of the same day only;
\* and no click changes the reservation classes or the label of any slot.
C20_ClickFootprint ==
    clicks # <<>> =>
        LET g0 == LastClick.grid
            i == LastClick.slot
            changed == {j \in Slots(g0) : grid[j] # g0[j]}
        IN /\ Len(grid) = Len(g0)
           /\ \A j \in changed :
                 /\ grid[j] = [g0[j] EXCEPT !.classList = grid[j].classList]
                 /\ grid[j].classList \ {"selected"} = g0[j].classList \ {"selected"}
           /\ (~Overnight(g0[i]) /\ ~IsReserved(g0[i])) =>
                 /\ IsSelected(grid[i]) # IsSelected(g0[i])
                 /\ changed = {i}
           /\ Overnight(g0[i]) =>
                 \A j \in changed : g0[j].day = g0[i].day /\ Overnight(g0[j])

\* a click on a daytime slot selected it, after a click on an overnight slot
\* had selected slots of its day
C20_Witness ==
    /\ Len(clicks) = 2
    /\ Overnight(grid[clicks[1].slot]) /\ SelectedSet(clicks[2].grid) # {}
    /\ ~Overnight(grid[clicks[2].slot])
    /\ ~IsSelected(clicks[2].grid[clicks[2].slot]) /\ IsSelected(grid[clicks[2].slot])

\* C21: with no slot selected the reservation intent is the empty list, and a
\* click on the submit button then sends no request and changes no slot.
C21_EmptySubmitDoesNothing ==
    [][(SubmitReservation /\ SelectedSet(grid) = {}) =>
          /\ buildReservationIntent(grid) = <<>>
          /\ pending' = pending
          /\ grid' = grid]_vars

\* the submit button was clicked on a grid with a reserved slot and no selection
C21_Witness ==
    /\ last = "submitEmpty"
    /\ SelectedSet(grid) = {} /\ ReservedSet(grid) # {}
    /\ buildReservationIntent(grid) = <<>> /\ pending = <<>>

\* the states, of the four of the reconciliation engine, that the classes of an
\* element put it in
StatesOf(el) ==
    (IF IsSelected(el) THEN {"selected"} ELSE {})
    \cup (IF IsReservedByOther(el) THEN {"reserved_by_other"} ELSE {})
    \cup (IF IsReservedBySelf(el) THEN {"reserved_by_self"} ELSE {})
    \cup (IF IsFree(el) THEN {"free"} ELSE {})

\* C22: in every reachable state every slot is in exactly one of the states
\* free, selected, reserved_by_other, reserved_by_self, whatever lists were
\* pushed, a list with two records for one slot and different usernames included.
C22_ExactlyOneState == \A i \in Slots(grid) : Cardinality(StatesOf(grid[i])) = 1

\* C26: when a /reserve request is answered 401 or 403, the session is removed
\* from the storage, the socket variable is null, the selection is as it was, no
\* error message is shown, and no pushed list is handled while the socket is null.
C26_SessionExpiry ==
    [][/\ (\E k \in 1..Len(pending) : ReserveSessionExpired(k)) =>
             /\ localStorage'.accessToken = NULL
             /\ localStorage'.username = NULL
             /\ localStorage'.allowedHours = NULL
             /\ socket' = NULL
             /\ SelectedSet(grid') = SelectedSet(grid)
             /\ messageArea' # showMessage("error")
       /\ socket = NULL =>
             ~(\E type \in MessageTypes, data \in OtherData : handleSocketMessage(type, data))
      ]_vars

\* a request was answered 401 while a slot was selected: the page is logged out
\* and the slot is still selected
C26_Witness ==
    /\ last = "reserveExpired"
    /\ socket = NULL /\ localStorage = EmptyStorage
    /\ SelectedSet(grid) # {}

\* C23: on the admin page, after any clicks, the members of a group all have
\* the same selection status: a click on a selected overnight slot deselects
\* every member of its group.
C23_AdminGroupsUniform ==
    view = "admin" =>
        \A key \in GroupKeys(grid) : \A i, j \in GroupMembers(grid, key) :
            IsSelected(grid[i]) <=> IsSelected(grid[j])

\* C24: on the admin page, after any clicks and pushes, no slot is selected and
\* reserved at once.
C24_AdminSelectionNeverReserved ==
    view = "admin" => SelectedSet(grid) \cap ReservedSet(grid) = {}

\* C27: a socket message of a type other than RESERVATION_UPDATE leaves the
\* grid as it was, slot by slot (classes, label, selection), on the user page
\* and on the admin page.
C27_OnlyReservationUpdate ==
    last \in MessageTypes \ {"RESERVATION_UPDATE"} => grid = before

\* a message of another type was handled on the admin page; it carried a record
\* for a selected slot, and a slot is reserved
C27_Witness ==
    /\ view = "admin"
    /\ last \in MessageTypes \ {"RESERVATION_UPDATE"}
    /\ \E i \in SelectedSet(grid) : NamedBy(pushed, grid[i]) # {} /\ grid[i].textContent = ""
    /\ ReservedSet(grid) # {}

\* C25: after a submission without clicks in between, the success answer and the
\* push of the list holding the submitted slots commute: whichever came first,
\* the grid is what either order computes from the grid at the submission, and
\* the submitted slots are reserved_by_self and not selected.
C25_AckAndPushCommute ==
    BothHandled =>
        LET selectedSlots == querySelectorAll(before, {"selected"})
            currentUser == localStorage.username
        IN /\ grid = updateGridWithReservations(removeSelected(before, selectedSlots),
                                                pushed, currentUser)
           /\ grid = removeSelected(updateGridWithReservations(before, pushed, currentUser),
                                    selectedSlots)
           /\ \A i \in SelectedSet(before) :
                 StatesOf(grid[i]) = {"reserved_by_self"}

\* the push came first and the answer second, for a submitted overnight group
C25_Witness ==
    /\ BothHandled
    /\ last = "reserveOk"
    /\ Cardinality(SelectedSet(before)) >= 2

====
